---- MODULE Spec2Model ----
(***************************************************************************)
(* Model of the browser-side chat scripts of llmquerychatbot.              *)
(*                                                                         *)
(* Three versions of the script are modelled side by side:                 *)
(*   "script"   src/backend/static/script.js                               *)
(*   "part_001" src/unnamed/part_001                                       *)
(*   "part_002" src/unnamed/part_002                                       *)
(*                                                                         *)
(* A JavaScript string is a sequence of one-character strings.  A piece of *)
(* HTML is a sequence of pieces [src, s]: src = "tpl" for text of a        *)
(* template literal of the script, src = "data" for text spliced in from a *)
(* value (a raw character, or the entity an escape produced for it).       *)
(***************************************************************************)
EXTENDS Integers, Sequences, FiniteSets, TLC

VARIABLES
    version,    \* which script is loaded
    pc,         \* position of the pure-function harness: "call" | "done" | "off"
    args,       \* arguments of the function under check
    ret,        \* its return value
    \* ---- the page (all versions)
    userInput,  \* userInput.value
    messages,   \* children of chatMessages / messagesWrapper, in document order
    requests,   \* fetch() calls not yet settled
    timers,     \* pending setTimeout callbacks, in the order they were scheduled
    now,        \* the millisecond Date.now() last returned (part_002: the last id drawn)
    nextAct,    \* number of the next user action that issues a request
    nextReq,    \* number of the next request
    \* ---- script.js / part_001
    queryDisplay,   \* queryDisplay.textContent
    setupMessage,   \* what #setup-message shows
    importMessage,  \* what #import-message shows
    fileSelected,   \* csvFileInput.files[0] exists
    \* ---- part_002
    currentMode,
    sendBtnDisabled,
    welcomeHidden,
    processingHidden,
    messageDownloadData,
    collections,
    collectionsList,
    toast,      \* type of the toast shown last ("" when none was shown)
    \* ---- history (not program state)
    replies,    \* per query: the reply messages appended for it, each with its
                \* type and with how the request had ended
    lastClick,  \* the latest click on a download button and the calls it made
    loadLog,    \* the GET /api/collections issued last, whether any has failed,
                \* and per import how it ended and the reloads made for it
    sentLog     \* how many requests each endpoint was sent, and how many user
                \* actions of each kind were accepted

pureVars == <<version, pc, args, ret>>
pageVars == <<userInput, messages, requests, timers, now, nextAct, nextReq>>
aVars    == <<queryDisplay, setupMessage, importMessage, fileSelected>>
bVars    == <<currentMode, sendBtnDisabled, welcomeHidden, processingHidden,
              messageDownloadData, collections, collectionsList, toast>>
histVars == <<replies, lastClick, loadLog, sentLog>>
vars     == <<pureVars, pageVars, aVars, bVars, histVars>>

Versions == {"script", "part_001", "part_002"}

-----------------------------------------------------------------------------
(* Generic sequence helpers                                                *)

FlatMap(F(_), s) ==
    LET f[i \in 0..Len(s)] == IF i = 0 THEN <<>> ELSE f[i - 1] \o F(s[i])
    IN  f[Len(s)]

Map(F(_), s) == [i \in 1..Len(s) |-> F(s[i])]

Contains(s, x) == \E i \in 1..Len(s) : s[i] = x

\* [...new Set(list)]: insertion order, each element once
Dedup(s) ==
    LET f[i \in 0..Len(s)] ==
            IF i = 0 THEN <<>>
            ELSE IF Contains(f[i - 1], s[i]) THEN f[i - 1]
                 ELSE Append(f[i - 1], s[i])
    IN  f[Len(s)]

Filter(P(_), s) == SelectSeq(s, P)

\* Array.prototype.join(sep) over an array of strings
Join(ss, sep) ==
    LET f[i \in 0..Len(ss)] ==
            IF i = 0 THEN <<>>
            ELSE IF i = 1 THEN ss[1]
                 ELSE f[i - 1] \o sep \o ss[i]
    IN  f[Len(ss)]

Rep(c, n) == [i \in 1..n |-> c]

-----------------------------------------------------------------------------
(* JavaScript values: t is the type tag, s is String(value), json is       *)
(* JSON.stringify(value, null, 2).                                         *)

Str(s)  == [t |-> "str",   s |-> s,    json |-> <<"\"">> \o s \o <<"\"">>]
Num(s)  == [t |-> "num",   s |-> s,    json |-> s]
Obj(s, j) == [t |-> "obj", s |-> s,    json |-> j]
Null    == [t |-> "null",  s |-> <<"n","u","l","l">>, json |-> <<"n","u","l","l">>]
Undef   == [t |-> "undef", s |-> <<"u","n","d","e","f","i","n","e","d">>, json |-> <<>>]

\* value == null
IsNullish(v) == v.t \in {"null", "undef"}

\* ToBoolean(value)
Truthy(v) ==
    /\ ~IsNullish(v)
    /\ ~(v.t = "str" /\ v.s = <<>>)
    /\ ~(v.t = "num" /\ v.s = <<"0">>)

\* A row object: its own properties in insertion order
ObjectKeys(r) == [i \in 1..Len(r) |-> r[i].k]

\* r[k]
Get(r, k) ==
    IF \E i \in 1..Len(r) : r[i].k = k
    THEN r[CHOOSE i \in 1..Len(r) : r[i].k = k].v
    ELSE Undef

\* The keys of the first row alone
UnionKeys_FirstRow(rows) == ObjectKeys(rows[1])

\* [...new Set(results.flatMap(r => Object.keys(r)))]
UnionKeys(rows) == Dedup(FlatMap(ObjectKeys, rows))

-----------------------------------------------------------------------------
(* HTML pieces and escapeHtml                                              *)

Special == {"&", "<", ">", "\"", "'"}

T(s) == <<[src |-> "tpl", s |-> s]>>
D(c) == <<[src |-> "data", s |-> c]>>

\* script.js / part_001: five chained replace() calls
EntityOf(c) ==
    CASE c = "&"  -> "&amp;"
      [] c = "<"  -> "&lt;"
      [] c = ">"  -> "&gt;"
      [] c = "\"" -> "&quot;"
      [] c = "'"  -> "&#39;"
      [] OTHER    -> c

\* part_002: div.textContent = s; return div.innerHTML.  The HTML fragment
\* serialisation of a text node escapes & < > and leaves both quotes as is.
TextNodeEntityOf(c) ==
    CASE c = "&"  -> "&amp;"
      [] c = "<"  -> "&lt;"
      [] c = ">"  -> "&gt;"
      [] OTHER    -> c

EscapeChar(ver, c) ==
    IF ver = "part_002" THEN TextNodeEntityOf(c) ELSE EntityOf(c)

escapeHtml(ver, value) ==
    IF IsNullish(value) THEN <<>>
    ELSE LET esc(c) == D(EscapeChar(ver, c)) IN FlatMap(esc, value.s)

-----------------------------------------------------------------------------
(* formatResults, script.js and part_001                                   *)

DownloadButtonA == T("<div style=\"margin-top:10px; text-align:right;\"><button class=\"download-csv\">Download as CSV</button></div>")

formatResultsA(ver, results, summary) ==
    IF Len(results) = 0 THEN T("No results found.")
    ELSE
      LET keys == UnionKeys(results)
          th(k) == T("<th>") \o escapeHtml(ver, Str(k)) \o T("</th>")
          tr(r) ==
              LET td(k) == T("<td>") \o escapeHtml(ver, Get(r, k)) \o T("</td>")
              IN  T("<tr>") \o FlatMap(td, keys) \o T("</tr>")
      IN  T("<div class=\"result-summary\">") \o escapeHtml(ver, summary) \o T("</div>")
          \o T("<table><tr>") \o FlatMap(th, keys) \o T("</tr>")
          \o FlatMap(tr, results)
          \o T("</table>")
          \o DownloadButtonA

-----------------------------------------------------------------------------
(* formatResults, part_002                                                 *)

K_id         == <<"_","i","d">>
K_source     == <<"_","s","o","u","r","c","e">>
K_collection == <<"_","c","o","l","l","e","c","t","i","o","n">>
Kai_summary  == <<"a","i","_","s","u","m","m","a","r","y">>
KLink        == <<"L","i","n","k">>
KYear        == <<"Y","e","a","r">>
KDate        == <<"D","a","t","e">>
KTitle       == <<"T","i","t","l","e">>
KName        == <<"N","a","m","e">>
KAbstract    == <<"A","b","s","t","r","a","c","t">>
KDescription == <<"D","e","s","c","r","i","p","t","i","o","n">>
KInventor    == <<"I","n","v","e","n","t","o","r">>
KAssignee    == <<"A","s","s","i","g","n","e","e">>
KOrganization == <<"O","r","g","a","n","i","z","a","t","i","o","n">>

excludeKeys == {K_id, K_source}
LongFields  == {KTitle, KName, KInventor, KAssignee, KOrganization}

MaxLenSummaryCell == 250
MaxLenObject      == 150
MaxLenLongField   == 80
MaxLenDefault     == 50

\* String.prototype.includes
Includes(s, sub) ==
    \E i \in 0..(Len(s) - Len(sub)) : SubSeq(s, i + 1, i + Len(sub)) = sub

\* String.prototype.toLowerCase over the letters the model's summaries use
ToLowerChar(c) == IF c = "C" THEN "c" ELSE c
toLowerCase(s) == [i \in 1..Len(s) |-> ToLowerChar(s[i])]

WordCollection == <<"c","o","l","l","e","c","t","i","o","n">>

\* A column order that leaves '_collection' where it first occurs
orderedKeysOf_CollectionInPlace(results) ==
    LET notExcluded(k) == k \notin excludeKeys
        rowKeys(r) == Filter(notExcluded, ObjectKeys(r))
        keys == Dedup(FlatMap(rowKeys, results))
        plain(k) == k \notin {K_source, Kai_summary, KLink, K_id}
        o1 == Filter(plain, keys)
        o3 == IF Contains(keys, Kai_summary) THEN Append(o1, Kai_summary) ELSE o1
    IN  IF Contains(keys, KLink) THEN Append(o3, KLink) ELSE o3

\* keys and orderedKeys of formatResults
orderedKeysOf(results) ==
    LET notExcluded(k) == k \notin excludeKeys
        rowKeys(r) == Filter(notExcluded, ObjectKeys(r))
        keys == Dedup(FlatMap(rowKeys, results))
        plain(k) == k \notin {K_source, Kai_summary, KLink, K_id}
        notColl(k) == k # K_collection
        o1 == Filter(plain, keys)
        o2 == IF Contains(keys, K_collection)
              THEN <<K_collection>> \o Filter(notColl, o1) ELSE o1
        o3 == IF Contains(keys, Kai_summary) THEN Append(o2, Kai_summary) ELSE o2
    IN  IF Contains(keys, KLink) THEN Append(o3, KLink) ELSE o3

getColumnWidth(k) ==
    CASE k = K_collection -> "120px"
      [] k = KLink -> "150px"
      [] k \in {KYear, KDate} -> "100px"
      [] k \in {KTitle, KName} -> "200px"
      [] k \in {KAbstract, KDescription, Kai_summary} -> "300px"
      [] k \in {KInventor, KAssignee, KOrganization} -> "180px"
      [] OTHER -> "150px"

truncateText(str, maxLength) ==
    IF Len(str) = 0 THEN <<>>
    ELSE IF Len(str) <= maxLength THEN str
         ELSE SubSeq(str, 1, maxLength) \o <<".", ".", ".">>

\* title="..." when the text was truncated
titleAttrOf(ver, text, maxLength) ==
    IF Len(text) > maxLength
    THEN T("title=\"") \o escapeHtml(ver, Str(text)) \o T("\"")
    ELSE <<>>

\* One data cell: [content, style, title]
cellOf(ver, k, v) ==
    IF IsNullish(v) \/ (v.t = "str" /\ v.s = <<>>) THEN
        [content |-> T("<span style=\"color: var(--text-secondary); font-style: italic;\">N/A</span>"),
         style |-> "", title |-> <<>>]
    ELSE IF k = KLink /\ Truthy(v) THEN
        [content |-> T("<a href=\"") \o escapeHtml(ver, Str(v.s))
                     \o T("\" target=\"_blank\" rel=\"noopener noreferrer\">View</a>"),
         style |-> "", title |-> <<>>]
    ELSE IF k = K_collection THEN
        [content |-> escapeHtml(ver, Str(v.s)),
         style |-> "background: rgba(99, 102, 241, 0.1); font-weight: 600;", title |-> <<>>]
    ELSE IF k = Kai_summary /\ Truthy(v) THEN
        [content |-> escapeHtml(ver, Str(truncateText(v.s, MaxLenSummaryCell))),
         style |-> "font-style: italic;",
         title |-> titleAttrOf(ver, v.s, MaxLenSummaryCell)]
    ELSE IF k \in {KAbstract, KDescription} THEN
        [content |-> escapeHtml(ver, Str(truncateText(v.s, MaxLenSummaryCell))),
         style |-> "line-height: 1.4;",
         title |-> titleAttrOf(ver, v.s, MaxLenSummaryCell)]
    ELSE IF v.t = "obj" THEN
        [content |-> escapeHtml(ver, Str(truncateText(v.json, MaxLenObject))),
         style |-> "font-family: var(--font-mono);",
         title |-> titleAttrOf(ver, v.json, MaxLenObject)]
    ELSE
        LET maxLen == IF k \in LongFields THEN MaxLenLongField ELSE MaxLenDefault
        IN  [content |-> escapeHtml(ver, Str(truncateText(v.s, maxLen))),
             style |-> IF k \in LongFields THEN "white-space: normal;" ELSE "",
             title |-> titleAttrOf(ver, v.s, maxLen)]

DownloadButtonB == T("<div style=\"margin-top: 1rem; text-align: right;\"><button class=\"download-csv\">Download as CSV</button></div>")

\* summary is a string; searched is data.collections_searched (a list of strings)
formatResultsB(ver, results, summary, searched) ==
    IF Len(results) = 0 THEN
        (IF Len(summary) > 0 THEN FlatMap(D, summary) ELSE T("No results found."))
    ELSE
      LET orderedKeys == orderedKeysOf(results)
          br(p) == IF p.s = "\n" THEN T("<br>") ELSE <<p>>
          summaryHtml ==
              IF Len(summary) > 0
              THEN T("<div class=\"result-summary\" style=\"margin-bottom: 1rem;\">")
                   \o FlatMap(br, escapeHtml(ver, Str(summary))) \o T("</div>")
              ELSE <<>>
          searchedHtml ==
              IF Len(searched) > 0
                 /\ (Len(summary) = 0 \/ ~Includes(toLowerCase(summary), WordCollection))
              THEN T("<div style=\"margin-bottom: 1rem;\"><strong>Collections searched:</strong> ")
                   \o escapeHtml(ver, Str(Join(searched, <<",", " ">>))) \o T("</div>")
              ELSE <<>>
          th(k) == T("<th style=\"text-align: left; width: ") \o T(getColumnWidth(k)) \o T(";\">")
                   \o escapeHtml(ver, Str(k)) \o T("</th>")
          tr(r) ==
              LET td(k) ==
                      LET c == cellOf(ver, k, Get(r, k))
                      IN  T("<td ") \o c.title \o T(" style=\"") \o T(c.style)
                          \o T(" width: ") \o T(getColumnWidth(k)) \o T(";\">")
                          \o c.content \o T("</td>")
              IN  T("<tr>") \o FlatMap(td, orderedKeys) \o T("</tr>")
      IN  summaryHtml \o searchedHtml
          \o T("<div style=\"overflow-x: auto;\">") \o T("<table style=\"width: 100%;\">")
          \o T("<tr>") \o FlatMap(th, orderedKeys) \o T("</tr>")
          \o FlatMap(tr, results)
          \o T("</table>") \o T("</div>")
          \o DownloadButtonB

formatResults(ver, results, summary, searched) ==
    IF ver = "part_002" THEN formatResultsB(ver, results, summary, searched)
    ELSE formatResultsA(ver, results, Str(summary))

-----------------------------------------------------------------------------
(* downloadCSV                                                             *)

\* const headers = ...
csvHeaders(ver, data) ==
    IF ver = "part_002" THEN UnionKeys(data) ELSE ObjectKeys(data[1])

\* String(val).replace(/"/g, '""')
DoubleQuotes(s) ==
    LET dq(c) == IF c = "\"" THEN <<"\"", "\"">> ELSE <<c>> IN FlatMap(dq, s)

\* let val = row[h] ?? ''; ... return `"${val}"`
csvField(v) ==
    <<"\"">> \o DoubleQuotes(IF IsNullish(v) THEN <<>> ELSE v.s) \o <<"\"">>

\* csvRows.join('\n'): the text of the blob
csvText(ver, data) ==
    LET headers == csvHeaders(ver, data)
        line(row) == LET f(h) == csvField(Get(row, h))
                     IN  Join(Map(f, headers), <<",">>)
    IN  Join(<<Join(headers, <<",">>)>> \o Map(line, data), <<"\n">>)

\* [saved, text]: saved is FALSE when downloadCSV only alerts 'No data to export.'
downloadCSV(ver, data) ==
    IF Len(data) = 0 THEN [saved |-> FALSE, text |-> <<>>]
    ELSE [saved |-> TRUE, text |-> csvText(ver, data)]

-----------------------------------------------------------------------------
(* A standard quoted-CSV reader (RFC 4180), used to read a download back   *)

CsvStart == [rows |-> <<>>, row |-> <<>>, field |-> <<>>, mode |-> "start"]

CsvEndField(st) ==
    [st EXCEPT !.row = Append(st.row, st.field), !.field = <<>>, !.mode = "start"]

CsvEndRow(st) ==
    [rows |-> Append(st.rows, Append(st.row, st.field)),
     row |-> <<>>, field |-> <<>>, mode |-> "start"]

CsvStep(st, c) ==
    CASE st.mode = "quoted" ->
            IF c = "\"" THEN [st EXCEPT !.mode = "quote"]
            ELSE [st EXCEPT !.field = Append(@, c)]
      [] st.mode = "quote" /\ c = "\"" ->
            [st EXCEPT !.field = Append(@, c), !.mode = "quoted"]
      [] st.mode = "start" /\ c = "\"" -> [st EXCEPT !.mode = "quoted"]
      [] OTHER ->
            IF c = "," THEN CsvEndField(st)
            ELSE IF c = "\n" THEN CsvEndRow(st)
            ELSE [st EXCEPT !.field = Append(@, c), !.mode = "plain"]

ParseCsv(text) ==
    LET f[i \in 0..Len(text)] ==
            IF i = 0 THEN CsvStart ELSE CsvStep(f[i - 1], text[i])
    IN  CsvEndRow(f[Len(text)]).rows

-----------------------------------------------------------------------------
(* The page: what the scripts share                                        *)

MaxActions == 2     \* user actions that issue a request (sends, setup, imports)
QueryTextLen == 2   \* characters of JSON.stringify(data.query, null, 2)

InputTexts == {"", " ", "q"}

\* String.prototype.trim over InputTexts
Trim(s) == IF s = " " THEN "" ELSE s

NoClick == [table |-> 0, calls |-> <<>>, settled |-> FALSE]

\* Delays of the setTimeout calls
ListenerDelayA == 50
TypeWriterDelay == 5
ListenerDelayB == 100
ReloadDelay == 500

\* setTimeout: a timer fires before every timer scheduled later with a delay
\* at least as long
CanFire(i) == \A j \in 1..(i - 1) : timers[j].delay > timers[i].delay

RemoveAt(s, i) == SubSeq(s, 1, i - 1) \o SubSeq(s, i + 1, Len(s))

Timer(delay, kind, q, i) == [delay |-> delay, kind |-> kind, q |-> q, i |-> i]

\* The state of the page while only a pure function is exercised
\* The endpoints the handlers call and the user actions that call them
Endpoints == {"/api/query", "/api/search", "/api/setup", "/api/import-csv",
              "/api/collections"}
ActionKinds == {"send", "setup", "import"}

NothingSent == [sent |-> [ep \in Endpoints |-> 0], acts |-> [k \in ActionKinds |-> 0]]

\* fetch(ep) is called, by a user action of the given kind that passed its
\* early return ("": by a timer or the initialization)
LogSent(ep, kind) ==
    sentLog' = [sent |-> [sentLog.sent EXCEPT ![ep] = @ + 1],
                acts |-> IF kind = "" THEN sentLog.acts
                         ELSE [sentLog.acts EXCEPT ![kind] = @ + 1]]

PageIdle ==
    /\ userInput = ""
    /\ messages = <<>>
    /\ requests = {}
    /\ timers = <<>>
    /\ now = 0
    /\ nextAct = 1
    /\ nextReq = 1
    /\ queryDisplay = <<>>
    /\ setupMessage = ""
    /\ importMessage = ""
    /\ fileSelected = FALSE
    /\ currentMode = "database"
    /\ sendBtnDisabled = TRUE
    /\ welcomeHidden = FALSE
    /\ processingHidden = TRUE
    /\ messageDownloadData = <<>>
    /\ collections = [req |-> 0, list |-> 0]
    /\ collectionsList = [kind |-> "initial", req |-> 0]
    /\ toast = ""
    /\ replies = <<>>
    /\ lastClick = NoClick
    /\ loadLog = [last |-> 0, failed |-> FALSE, imports |-> <<>>]
    /\ sentLog = NothingSent

-----------------------------------------------------------------------------
(* Responses of the backend to POST /api/query and POST /api/search        *)

\* What a field of the JSON body can hold, as far as the scripts tell apart:
\*   absent, zero (0), false, emptystr ('') are falsy;
\*   rows: a non-empty array of row objects; badrows: a non-empty array with a
\*   null row; empty: []; number: a non-zero number; other: a non-empty
\*   string, an object or true.
ValKinds == {"absent", "zero", "false", "emptystr", "rows", "badrows", "empty",
             "number", "other"}
Falsy(k) == k \in {"absent", "zero", "false", "emptystr"}

\* net: fetch() resolved; ok: response.ok; json: the body parses;
\* error: data.error is truthy; query: data.query is truthy
Response(net, ok, json, error, query, result, sample, summary, searched) ==
    [net |-> net, ok |-> ok, json |-> json, error |-> error, query |-> query,
     result |-> result, sample |-> sample, summary |-> summary, searched |-> searched]

NetFail == Response(FALSE, FALSE, FALSE, FALSE, FALSE, "absent", "absent", "none", 0)

\* summary: none | plain | mentions (contains the word 'collection')
QueryResponses ==
    {NetFail}
    \cup {Response(TRUE, ok, FALSE, FALSE, FALSE, "absent", "absent", "none", 0) :
            ok \in BOOLEAN}
    \cup {Response(TRUE, ok, TRUE, TRUE, FALSE, "absent", "absent", "none", 0) :
            ok \in BOOLEAN}
    \cup {Response(TRUE, FALSE, TRUE, FALSE, FALSE, "absent", "absent", "none", 0)}
    \cup {Response(TRUE, TRUE, TRUE, FALSE, qy, rs, sm, su, se) :
            qy \in BOOLEAN, rs \in ValKinds, sm \in {"absent", "rows"},
            su \in {"none", "plain", "mentions"}, se \in {0, 1}}

\* data.result || data.sample_result || []  (part_002 also reads data.patents,
\* which the field sample stands for as well)
ResultsOf(resp) ==
    IF ~Falsy(resp.result) THEN [kind |-> resp.result, from |-> "result"]
    ELSE IF ~Falsy(resp.sample) THEN [kind |-> resp.sample, from |-> "sample_result"]
    ELSE [kind |-> "empty", from |-> "default"]

\* How a request ended, as the backend and the network decided it
OutcomeOf(resp) ==
    IF ~resp.net \/ ~resp.ok \/ ~resp.json \/ resp.error THEN "failed"
    ELSE IF ResultsOf(resp).kind = "badrows" THEN "malformed"
    ELSE "succeeded"

-----------------------------------------------------------------------------
(* Messages and requests                                                   *)

\* One child of the message list.  id is the element's id; type is the class
\* ('user', 'system', 'assistant', 'error'); kind tells what it shows:
\*   user | loading | error | table | none | summary | number | json.
\* q is the query it belongs to, from the field of the response its content
\* was taken from, note whether the 'Searched N collection(s)' text was added,
\* listeners the click listeners on its download button (the rows each exports).
Msg(id, type, kind, q, from, note) ==
    [id |-> id, type |-> type, kind |-> kind, q |-> q, from |-> from,
     note |-> note, listeners |-> <<>>]

HasDownloadButton(m) == m.kind = "table"

\* limit: 10
SearchLimit == 10

\* The JSON body of a POST: {question} in script.js and part_001,
\* {question, mode: 'database'} and {query: question, limit: 10} in part_002;
\* the other requests carry no JSON
BodyOf(ep, q) ==
    IF ep = "/api/query" THEN
        IF version = "part_002" THEN [question |-> q, mode |-> "database"]
        ELSE [question |-> q]
    ELSE IF ep = "/api/search" THEN [query |-> q, limit |-> SearchLimit]
    ELSE <<>>

Req(id, owner, ep, q, loading, mode) ==
    [id |-> id, owner |-> owner, ep |-> ep, q |-> q, loading |-> loading,
     mode |-> mode, stage |-> "sent", ok |-> FALSE, body |-> BodyOf(ep, q)]

\* const el = document.getElementById(id); if (el) el.remove();
removeMessage(msgs, id) ==
    IF \E i \in 1..Len(msgs) : msgs[i].id = id
    THEN RemoveAt(msgs, CHOOSE i \in 1..Len(msgs) :
                          msgs[i].id = id /\ \A j \in 1..(i - 1) : msgs[j].id # id)
    ELSE msgs

\* Date.now(): the clock has advanced since the last reading, or has not
\* (now = 0: there was no reading yet)
ClockReads(t) == IF t = 0 THEN {1} ELSE {t, t + 1}

\* on: "failed" (no connection, a status that is not OK, a body that does not
\* parse, an error field), "malformed" (a parsed body the handler cannot
\* render) or "succeeded"
AddReply(q, type, on) ==
    LET entry == [type |-> type, on |-> on]
    IN  replies' = [x \in DOMAIN replies \cup {q} |->
                       IF x = q THEN (IF q \in DOMAIN replies
                                      THEN Append(replies[q], entry) ELSE <<entry>>)
                       ELSE replies[x]]

-----------------------------------------------------------------------------
(* script.js and part_001                                                  *)

IsA == version \in {"script", "part_001"}

\* The user edits the input field
A_Type(text) ==
    /\ IsA
    /\ userInput # text
    /\ userInput' = text
    /\ UNCHANGED <<pureVars, messages, requests, timers, now, nextAct, nextReq,
                   aVars, bVars, histVars>>

\* part_001: a suggestion chip is clicked
A_Chip ==
    /\ version = "part_001"
    /\ userInput # "q"
    /\ userInput' = "q"
    /\ UNCHANGED <<pureVars, messages, requests, timers, now, nextAct, nextReq,
                   aVars, bVars, histVars>>

\* sendQuery up to its first await
A_SendQuery ==
    /\ IsA
    /\ nextAct <= MaxActions
    /\ Trim(userInput) # ""
    /\ \E t1 \in ClockReads(now) : \E t2 \in ClockReads(t1) :
          /\ messages' = messages
                 \o <<Msg(t1, "user", "user", nextAct, "", FALSE),
                      Msg(t2, "system", "loading", nextAct, "", FALSE)>>
          /\ requests' = requests \cup
                 {Req(nextReq, nextAct, "/api/query", nextAct, t2, "")}
          /\ now' = t2
    /\ userInput' = ""
    /\ nextAct' = nextAct + 1
    /\ nextReq' = nextReq + 1
    /\ LogSent("/api/query", "send")
    /\ UNCHANGED <<pureVars, timers, aVars, bVars, replies, lastClick, loadLog>>

\* The reply sendQuery shows for a successful response: [kind, from]
A_ResultMessage(resp) ==
    LET res == ResultsOf(resp)
    IN  [kind |-> CASE res.kind = "rows" -> "table"
                    [] res.kind = "empty" -> "none"
                    [] res.kind = "number" -> "number"
                    [] OTHER -> "json",
         from |-> res.from]

\* typeWriter(element, text, i): one call
typeWriter(display, q, i) ==
    LET cleared == IF i = 0 THEN <<>> ELSE display
    IN  IF i < QueryTextLen
        THEN [display |-> Append(cleared, <<q, i + 1>>),
              timer |-> <<Timer(TypeWriterDelay, "type", q, i + 1)>>]
        ELSE [display |-> cleared, timer |-> <<>>]

\* queryDisplay.textContent = JSON.stringify(data.query, null, 2)
QueryText(q) == [i \in 1..QueryTextLen |-> <<q, i>>]

\* A test of the status alone
A_IsErrorResponse_StatusOnly(resp) == ~resp.ok

\* if (!response.ok || data.error)
A_IsErrorResponse(resp) == ~resp.ok \/ resp.error

\* sendQuery from the settling of fetch() to its end
A_QueryResponse(r, resp) ==
    /\ IsA
    /\ r \in requests /\ r.ep = "/api/query"
    /\ requests' = requests \ {r}
    /\ LET removed == removeMessage(messages, r.loading)
       IN
       IF ~resp.net \/ ~resp.json THEN
           \* fetch() or response.json() rejects: the catch block
           /\ \E t \in ClockReads(now) :
                 /\ messages' = Append(removeMessage(messages, r.loading),
                                       Msg(t, "error", "error", r.q, "", FALSE))
                 /\ now' = t
           /\ AddReply(r.q, "error", OutcomeOf(resp))
           /\ UNCHANGED <<timers, queryDisplay>>
       ELSE IF A_IsErrorResponse(resp) THEN
           /\ \E t \in ClockReads(now) :
                 /\ messages' = Append(removed, Msg(t, "error", "error", r.q, "", FALSE))
                 /\ now' = t
           /\ AddReply(r.q, "error", OutcomeOf(resp))
           /\ UNCHANGED <<timers, queryDisplay>>
       ELSE
           LET typed == IF ~resp.query THEN [display |-> queryDisplay, timer |-> <<>>]
                        ELSE IF version = "part_001" THEN typeWriter(queryDisplay, r.q, 0)
                        ELSE [display |-> QueryText(r.q), timer |-> <<>>]
               reply == A_ResultMessage(resp)
           IN
           /\ queryDisplay' = typed.display
           /\ IF ResultsOf(resp).kind = "badrows" THEN
                  \* Object.keys(null) throws in formatResults: the catch block
                  /\ \E t \in ClockReads(now) :
                        /\ messages' = Append(removeMessage(removed, r.loading),
                                              Msg(t, "error", "error", r.q, "", FALSE))
                        /\ now' = t
                  /\ AddReply(r.q, "error", OutcomeOf(resp))
                  /\ timers' = timers \o typed.timer
              ELSE
                  /\ \E t \in ClockReads(now) :
                        /\ messages' = Append(removed,
                                              Msg(t, "system", reply.kind, r.q, reply.from, FALSE))
                        /\ now' = t
                  /\ AddReply(r.q, "result", OutcomeOf(resp))
                  /\ timers' = timers \o typed.timer \o
                        (IF reply.kind = "table"
                         THEN <<Timer(ListenerDelayA, "listener", r.q, 0)>> ELSE <<>>)
    /\ UNCHANGED <<pureVars, userInput, nextAct, nextReq, setupMessage, importMessage,
                   fileSelected, bVars, lastClick, loadLog, sentLog>>

\* Every deferred attaching of a click listener has run
NoListenerPending == \A j \in 1..Len(timers) : timers[j].kind # "listener"

\* The callback formatResults deferred by 50 ms
A_ListenerTimer(i) ==
    /\ IsA
    /\ i \in 1..Len(timers) /\ timers[i].kind = "listener" /\ CanFire(i)
    /\ timers' = RemoveAt(timers, i)
    /\ messages' =
          IF Len(messages) > 0 /\ HasDownloadButton(messages[Len(messages)])
          THEN [messages EXCEPT ![Len(messages)].listeners = Append(@, timers[i].q)]
          ELSE messages
    /\ UNCHANGED <<pureVars, userInput, requests, now, nextAct, nextReq, aVars, bVars,
                   histVars>>

\* part_001: the callback typeWriter deferred by 5 ms
A_TypeWriterTimer(i) ==
    /\ version = "part_001"
    /\ i \in 1..Len(timers) /\ timers[i].kind = "type" /\ CanFire(i)
    /\ LET typed == typeWriter(queryDisplay, timers[i].q, timers[i].i)
       IN  /\ queryDisplay' = typed.display
           /\ timers' = RemoveAt(timers, i) \o typed.timer
    /\ UNCHANGED <<pureVars, userInput, messages, requests, now, nextAct, nextReq, setupMessage, importMessage,
                   fileSelected, bVars, histVars>>

\* A click on the download button of the i-th message: every listener runs
A_ClickDownload(i) ==
    /\ IsA
    /\ i \in 1..Len(messages) /\ HasDownloadButton(messages[i])
    /\ lastClick' = [table |-> messages[i].q, calls |-> messages[i].listeners,
                     settled |-> NoListenerPending]
    /\ UNCHANGED <<pureVars, pageVars, aVars, bVars, replies, loadLog, sentLog>>

\* Outcomes of a request whose handler only tells success from failure:
\* fetch() rejects, the body does not parse, the status is not OK, or all is well
PlainOutcomes == {"netfail", "badjson", "notok", "ok"}

\* setupDbButton click, up to the await
A_SetupClick ==
    /\ IsA
    /\ nextAct <= MaxActions
    /\ setupMessage' = "Setting up"
    /\ requests' = requests \cup {Req(nextReq, nextAct, "/api/setup", 0, 0, "")}
    /\ nextAct' = nextAct + 1
    /\ nextReq' = nextReq + 1
    /\ LogSent("/api/setup", "setup")
    /\ UNCHANGED <<pureVars, userInput, messages, timers, now, queryDisplay,
                   importMessage, fileSelected, bVars, replies, lastClick, loadLog>>

\* A setup handler that sends its request again when it failed
A_SetupResponse_Retry(r, outcome) ==
    /\ IsA
    /\ r \in requests /\ r.ep = "/api/setup"
    /\ IF outcome = "ok" THEN
           /\ requests' = requests \ {r}
           /\ setupMessage' = "data.message"
           /\ UNCHANGED <<nextReq, sentLog>>
       ELSE
           /\ requests' = (requests \ {r}) \cup
                  {Req(nextReq, r.owner, "/api/setup", 0, 0, "")}
           /\ nextReq' = nextReq + 1
           /\ LogSent("/api/setup", "")
           /\ setupMessage' = "failed"
    /\ UNCHANGED <<pureVars, userInput, messages, timers, now, nextAct,
                   queryDisplay, importMessage, fileSelected, bVars, replies,
                   lastClick, loadLog>>

\* setupDbButton click, from the settling of fetch() to its end
A_SetupResponse(r, outcome) ==
    /\ IsA
    /\ r \in requests /\ r.ep = "/api/setup"
    /\ requests' = requests \ {r}
    /\ setupMessage' = IF outcome = "ok" THEN "data.message" ELSE "failed"
    /\ UNCHANGED <<pureVars, userInput, messages, timers, now, nextAct, nextReq,
                   queryDisplay, importMessage, fileSelected, bVars, histVars>>

\* The user picks a file, or clears the choice
A_SelectFile(b) ==
    /\ IsA
    /\ fileSelected # b
    /\ fileSelected' = b
    /\ UNCHANGED <<pureVars, pageVars, queryDisplay, setupMessage, importMessage,
                   bVars, histVars>>

\* importCsvButton click, up to the await (or to the early return)
A_ImportClick ==
    /\ IsA
    /\ IF ~fileSelected THEN
           /\ importMessage' = "Please select a CSV file first."
           /\ UNCHANGED <<requests, nextAct, nextReq, sentLog>>
       ELSE
           /\ nextAct <= MaxActions
           /\ importMessage' = "Importing"
           /\ requests' = requests \cup
                  {Req(nextReq, nextAct, "/api/import-csv", 0, 0, "")}
           /\ nextAct' = nextAct + 1
           /\ nextReq' = nextReq + 1
           /\ LogSent("/api/import-csv", "import")
    /\ UNCHANGED <<pureVars, userInput, messages, timers, now, queryDisplay,
                   setupMessage, fileSelected, bVars, replies, lastClick, loadLog>>

\* importCsvButton click, from the settling of fetch() to its end
A_ImportResponse(r, outcome) ==
    /\ IsA
    /\ r \in requests /\ r.ep = "/api/import-csv"
    /\ requests' = requests \ {r}
    /\ importMessage' = IF outcome = "ok" THEN "imported" ELSE "failed"
    /\ UNCHANGED <<pureVars, userInput, messages, timers, now, nextAct, nextReq,
                   queryDisplay, setupMessage, fileSelected, bVars, histVars>>

InitA ==
    /\ PageIdle
    /\ version \in {"script", "part_001"}
    /\ pc = "off"
    /\ args = <<>>
    /\ ret = <<>>

\* Responses with which the chat is exercised: every way a request can fail,
\* and a result with rows, without rows and with a row that is no object
RespsChat ==
    {resp \in QueryResponses :
        \/ OutcomeOf(resp) = "failed"
        \/ /\ ~resp.query /\ resp.sample = "absent"
           /\ resp.result \in {"rows", "empty", "badrows"}
           /\ resp.summary = "none" /\ resp.searched = 0}

\* Sending a query and receiving its response
NextQueryA(Texts, Resps) ==
    \/ \E text \in Texts : A_Type(text)
    \/ A_Chip
    \/ A_SendQuery
    \/ \E r \in requests : \E resp \in Resps : A_QueryResponse(r, resp)

\* The result tables and their download buttons
NextTablesA ==
    \/ \E i \in 1..Len(timers) : A_ListenerTimer(i)
    \/ \E i \in 1..Len(messages) : A_ClickDownload(i)

\* The setup and import buttons
NextFormsA ==
    \/ A_SetupClick
    \/ \E r \in requests : \E outcome \in PlainOutcomes : A_SetupResponse(r, outcome)
    \/ \E b \in BOOLEAN : A_SelectFile(b)
    \/ A_ImportClick
    \/ \E r \in requests : \E outcome \in PlainOutcomes : A_ImportResponse(r, outcome)

SpecA == InitA /\ [][NextQueryA({"", "q"}, RespsChat) \/ NextTablesA]_vars

\* Responses that carry a query (data.query is truthy) and no rows, and a
\* request that is not answered
RespsTyped ==
    {NetFail} \cup
    {resp \in QueryResponses :
        /\ OutcomeOf(resp) = "succeeded" /\ resp.query
        /\ resp.result = "empty" /\ resp.sample = "absent"
        /\ resp.summary = "none" /\ resp.searched = 0}

\* The queries of script.js and part_001 with the typing of the query display
NextTyping ==
    \/ NextQueryA({"q"}, RespsTyped)
    \/ \E i \in 1..Len(timers) : A_TypeWriterTimer(i)

SpecTyping == InitA /\ [][NextTyping]_vars

-----------------------------------------------------------------------------
(* part_002                                                                *)

IsB == version = "part_002"

Modes == {"database", "serpapi"}

\* updateSendButton after the input was set to text
DisabledFor(text) == Trim(text) = ""

\* 'msg-' + Date.now() + '-' + nine random characters: taken as a fresh id
FreshId == now + 1

\* An addMessage that leaves the welcome screen as it is
B_addMessage_WelcomeKept(type, kind, q, from, note, hasData) ==
    /\ welcomeHidden' = welcomeHidden
    /\ messages' = Append(messages, Msg(FreshId, type, kind, q, from, note))
    /\ now' = FreshId
    /\ messageDownloadData' =
          IF hasData
          THEN [x \in DOMAIN messageDownloadData \cup {FreshId} |->
                   IF x = FreshId THEN q ELSE messageDownloadData[x]]
          ELSE messageDownloadData
    /\ timers' = Append(timers, Timer(ListenerDelayB, "listener", q, FreshId))

\* addMessage(text, type, downloadData): hides the welcome screen, appends the
\* message, stores the download data and defers the listener by 100 ms
B_addMessage(type, kind, q, from, note, hasData) ==
    /\ welcomeHidden' = TRUE
    /\ messages' = Append(messages, Msg(FreshId, type, kind, q, from, note))
    /\ now' = FreshId
    /\ messageDownloadData' =
          IF hasData
          THEN [x \in DOMAIN messageDownloadData \cup {FreshId} |->
                   IF x = FreshId THEN q ELSE messageDownloadData[x]]
          ELSE messageDownloadData
    /\ timers' = Append(timers, Timer(ListenerDelayB, "listener", q, FreshId))

\* The user edits the input field
B_Type(text) ==
    /\ IsB
    /\ userInput # text
    /\ userInput' = text
    /\ sendBtnDisabled' = DisabledFor(text)
    /\ UNCHANGED <<pureVars, messages, requests, timers, now, nextAct, nextReq, aVars,
                   currentMode, welcomeHidden, processingHidden, messageDownloadData,
                   collections, collectionsList, toast, histVars>>

\* A click on one of the two mode buttons
switchMode(mode) ==
    /\ IsB
    /\ currentMode' = mode
    /\ userInput' = ""
    /\ sendBtnDisabled' = DisabledFor("")
    /\ UNCHANGED <<pureVars, messages, requests, timers, now, nextAct, nextReq, aVars,
                   welcomeHidden, processingHidden, messageDownloadData,
                   collections, collectionsList, toast, histVars>>

\* An endpoint choice that ignores the mode
EndpointOf_Query(mode) == "/api/query"

\* if (currentMode === 'database') fetch('/api/query') else fetch('/api/search')
EndpointOf(mode) == IF mode = "database" THEN "/api/query" ELSE "/api/search"

\* sendMessage up to its first await, started by a click on the send button
\* or by Enter (both need the button enabled)
B_SendMessage ==
    /\ IsB
    /\ ~sendBtnDisabled
    /\ nextAct <= MaxActions
    /\ Trim(userInput) # ""
    /\ B_addMessage("user", "user", nextAct, "", FALSE, FALSE)
    /\ userInput' = ""
    /\ sendBtnDisabled' = DisabledFor("")
    /\ processingHidden' = FALSE
    /\ requests' = requests \cup
          {Req(nextReq, nextAct, EndpointOf(currentMode), nextAct, 0, currentMode)}
    /\ nextAct' = nextAct + 1
    /\ nextReq' = nextReq + 1
    /\ LogSent(EndpointOf(currentMode), "send")
    /\ UNCHANGED <<pureVars, aVars, currentMode, collections, collectionsList, toast,
                   replies, lastClick, loadLog>>

\* The keydown listener of the input field and, where it does not prevent
\* it, the default action of the key: Enter without Shift calls sendMessage
\* when the button is enabled and types nothing; Enter with Shift breaks the
\* line; any other key types its character.  Both fire the input event.
B_KeyDown(key, shift) ==
    /\ IsB
    /\ IF key = "Enter" /\ ~shift THEN
           IF ~sendBtnDisabled THEN B_SendMessage ELSE UNCHANGED vars
       ELSE
           /\ userInput' = IF key = "Enter"
                           THEN (IF Trim(userInput) = "" THEN " " ELSE userInput)
                           ELSE "q"
           /\ sendBtnDisabled' = DisabledFor(userInput')
           /\ UNCHANGED <<pureVars, messages, requests, timers, now, nextAct, nextReq,
                          aVars, currentMode, welcomeHidden, processingHidden,
                          messageDownloadData, collections, collectionsList, toast,
                          histVars>>

\* sendMessage: fetch() settles.  A rejection runs the catch block; otherwise
\* the indicator is hidden and the body is awaited.
B_FetchSettled(r, net, ok) ==
    /\ IsB
    /\ r \in requests /\ r.ep \in {"/api/query", "/api/search"} /\ r.stage = "sent"
    /\ processingHidden' = TRUE
    /\ IF ~net THEN
           /\ requests' = requests \ {r}
           /\ B_addMessage("error", "error", r.q, "", FALSE, FALSE)
           /\ AddReply(r.q, "error", OutcomeOf(NetFail))
       ELSE
           /\ requests' = (requests \ {r}) \cup {[r EXCEPT !.stage = "body", !.ok = ok]}
           /\ UNCHANGED <<messages, timers, now, welcomeHidden, messageDownloadData,
                          replies>>
    /\ UNCHANGED <<pureVars, userInput, nextAct, nextReq, aVars, currentMode,
                   sendBtnDisabled, collections, collectionsList, toast, lastClick,
                   loadLog, sentLog>>

\* if (collectionsSearched.length > 0 && currentMode === 'database')
\*     if (!summary.includes('collection')) enhancedSummary = ... Searched N ...
SearchedNote(resp, mode) ==
    resp.searched > 0 /\ mode = "database" /\ resp.summary # "mentions"

\* The reply sendMessage shows for a parsed response without error field,
\* read with the mode as it is now: [kind, from, note, hasData]
B_ResultMessage(resp, mode) ==
    LET res == ResultsOf(resp)
        note == SearchedNote(resp, mode)
    IN  IF res.kind = "rows"
        THEN [kind |-> "table", from |-> res.from, note |-> note, hasData |-> TRUE]
        ELSE IF resp.summary # "none" \/ note
        THEN [kind |-> "summary", from |-> "", note |-> note, hasData |-> FALSE]
        ELSE [kind |-> "none", from |-> "", note |-> FALSE, hasData |-> FALSE]

\* sendMessage from the settling of response.json() to its end
B_BodyRead(r, resp) ==
    /\ IsB
    /\ r \in requests /\ r.stage = "body"
    /\ resp.net /\ resp.ok = r.ok
    /\ requests' = requests \ {r}
    /\ IF ~r.ok \/ ~resp.json \/ resp.error THEN
           /\ B_addMessage("error", "error", r.q, "", FALSE, FALSE)
           /\ AddReply(r.q, "error", OutcomeOf(resp))
           /\ UNCHANGED processingHidden
       ELSE IF ResultsOf(resp).kind = "badrows" THEN
           \* Object.keys(null) throws in formatResults: the catch block
           /\ processingHidden' = TRUE
           /\ B_addMessage("error", "error", r.q, "", FALSE, FALSE)
           /\ AddReply(r.q, "error", OutcomeOf(resp))
       ELSE
           LET reply == B_ResultMessage(resp, currentMode)
           IN  /\ B_addMessage("assistant", reply.kind, r.q, reply.from, reply.note,
                               reply.hasData)
               /\ AddReply(r.q, "result", OutcomeOf(resp))
               /\ UNCHANGED processingHidden
    /\ UNCHANGED <<pureVars, userInput, nextAct, nextReq, aVars, currentMode,
                   sendBtnDisabled, collections, collectionsList, toast, lastClick,
                   loadLog, sentLog>>

\* The callback addMessage deferred by 100 ms
B_ListenerTimer(i) ==
    /\ IsB
    /\ i \in 1..Len(timers) /\ timers[i].kind = "listener" /\ CanFire(i)
    /\ timers' = RemoveAt(timers, i)
    /\ messages' =
          [j \in 1..Len(messages) |->
              IF messages[j].id = timers[i].i /\ HasDownloadButton(messages[j])
              THEN [messages[j] EXCEPT !.listeners = Append(@, timers[i].i)]
              ELSE messages[j]]
    /\ UNCHANGED <<pureVars, userInput, requests, now, nextAct, nextReq, aVars, bVars,
                   histVars>>

\* messageDownloadData.get(messageId): 0 when there is no entry
DownloadDataOf(id) ==
    IF id \in DOMAIN messageDownloadData THEN messageDownloadData[id] ELSE 0

\* A click on the download button of the i-th message: every listener runs
B_ClickDownload(i) ==
    /\ IsB
    /\ i \in 1..Len(messages) /\ HasDownloadButton(messages[i])
    /\ lastClick' = [table |-> messages[i].q,
                     calls |-> [j \in 1..Len(messages[i].listeners) |->
                                   DownloadDataOf(messages[i].listeners[j])],
                     settled |-> NoListenerPending]
    /\ toast' = IF Len(messages[i].listeners) = 0 THEN toast
                ELSE IF DownloadDataOf(messages[i].listeners[Len(messages[i].listeners)]) # 0
                THEN "success" ELSE "error"
    /\ UNCHANGED <<pureVars, pageVars, aVars, currentMode, sendBtnDisabled,
                   welcomeHidden, processingHidden, messageDownloadData, collections,
                   collectionsList, replies, loadLog, sentLog>>

\* A New Chat that also drops the requests in flight
B_NewChat_Abort ==
    /\ IsB
    /\ messages' = <<>>
    /\ requests' = {r \in requests : r.ep \notin {"/api/query", "/api/search"}}
    /\ welcomeHidden' = FALSE
    /\ userInput' = ""
    /\ sendBtnDisabled' = DisabledFor("")
    /\ UNCHANGED <<pureVars, timers, now, nextAct, nextReq, aVars,
                   currentMode, processingHidden, messageDownloadData, collections,
                   collectionsList, toast, histVars>>

\* A New Chat that leaves the send button as it is
B_NewChat_ButtonKept ==
    /\ IsB
    /\ messages' = <<>>
    /\ welcomeHidden' = FALSE
    /\ userInput' = ""
    /\ UNCHANGED <<pureVars, requests, timers, now, nextAct, nextReq, aVars,
                   currentMode, sendBtnDisabled, processingHidden, messageDownloadData,
                   collections, collectionsList, toast, histVars>>

\* A click on New Chat
B_NewChat ==
    /\ IsB
    /\ messages' = <<>>
    /\ welcomeHidden' = FALSE
    /\ userInput' = ""
    /\ sendBtnDisabled' = DisabledFor("")
    /\ UNCHANGED <<pureVars, requests, timers, now, nextAct, nextReq, aVars,
                   currentMode, processingHidden, messageDownloadData, collections,
                   collectionsList, toast, histVars>>

\* Sizes of the list a GET /api/collections can return
CollectionLists == {0, 1}

\* The function f with the value v at k
Put(f, k, v) == [x \in DOMAIN f \cup {k} |-> IF x = k THEN v ELSE f[x]]

\* What is recorded of the import started by user action a: how its request
\* ended (pending | ok | failed), the GET /api/collections issued for it and
\* those of them whose response has been handled
ImportStarted(a, gets) ==
    Put(loadLog.imports, a, [ended |-> "pending", gets |-> gets, loads |-> 0])

\* A change handler that reloads the collections without awaiting the upload
B_FileChange_Eager ==
    /\ IsB
    /\ nextAct <= MaxActions
    /\ toast' = "info"
    /\ requests' = requests \cup {Req(nextReq, nextAct, "/api/import-csv", 0, 0, ""),
                                  Req(nextReq + 1, nextAct, "/api/collections", 0, 0, "")}
    /\ nextAct' = nextAct + 1
    /\ nextReq' = nextReq + 2
    /\ loadLog' = [loadLog EXCEPT !.last = nextReq + 1,
                                  !.imports = ImportStarted(nextAct, 1)]
    /\ sentLog' = [sent |-> [sentLog.sent EXCEPT !["/api/import-csv"] = @ + 1,
                                                 !["/api/collections"] = @ + 1],
                   acts |-> [sentLog.acts EXCEPT !["import"] = @ + 1]]
    /\ UNCHANGED <<pureVars, userInput, messages, timers, now, aVars, currentMode,
                   sendBtnDisabled, welcomeHidden, processingHidden,
                   messageDownloadData, collections, collectionsList, replies,
                   lastClick>>

\* csvFileInput change with a file chosen, up to the await
B_FileChange ==
    /\ IsB
    /\ nextAct <= MaxActions
    /\ toast' = "info"
    /\ requests' = requests \cup {Req(nextReq, nextAct, "/api/import-csv", 0, 0, "")}
    /\ nextAct' = nextAct + 1
    /\ nextReq' = nextReq + 1
    /\ loadLog' = [loadLog EXCEPT !.imports = ImportStarted(nextAct, 0)]
    /\ LogSent("/api/import-csv", "import")
    /\ UNCHANGED <<pureVars, userInput, messages, timers, now, aVars, currentMode,
                   sendBtnDisabled, welcomeHidden, processingHidden,
                   messageDownloadData, collections, collectionsList, replies,
                   lastClick>>

\* A change handler that reloads the collections however the upload ended
B_ImportResponse_Always(r, outcome) ==
    /\ IsB
    /\ r \in requests /\ r.ep = "/api/import-csv"
    /\ requests' = requests \ {r}
    /\ toast' = IF outcome = "ok" THEN "success" ELSE "error"
    /\ timers' = Append(timers, Timer(ReloadDelay, "reload", r.owner, 0))
    /\ loadLog' = [loadLog EXCEPT !.imports[r.owner].ended =
                                     IF outcome = "ok" THEN "ok" ELSE "failed"]
    /\ UNCHANGED <<pureVars, userInput, messages, now, nextAct, nextReq, aVars,
                   currentMode, sendBtnDisabled, welcomeHidden, processingHidden,
                   messageDownloadData, collections, collectionsList, replies,
                   lastClick, sentLog>>

\* csvFileInput change, from the settling of fetch() to its end
B_ImportResponse(r, outcome) ==
    /\ IsB
    /\ r \in requests /\ r.ep = "/api/import-csv"
    /\ requests' = requests \ {r}
    /\ IF outcome = "ok" THEN
           /\ toast' = "success"
           /\ timers' = Append(timers, Timer(ReloadDelay, "reload", r.owner, 0))
       ELSE
           /\ toast' = "error"
           /\ UNCHANGED timers
    /\ loadLog' = [loadLog EXCEPT !.imports[r.owner].ended =
                                     IF outcome = "ok" THEN "ok" ELSE "failed"]
    /\ UNCHANGED <<pureVars, userInput, messages, now, nextAct, nextReq, aVars,
                   currentMode, sendBtnDisabled, welcomeHidden, processingHidden,
                   messageDownloadData, collections, collectionsList, replies,
                   lastClick, sentLog>>

\* loadCollections up to its await, called by the timer set after an import
B_ReloadTimer(i) ==
    /\ IsB
    /\ i \in 1..Len(timers) /\ timers[i].kind = "reload" /\ CanFire(i)
    /\ timers' = RemoveAt(timers, i)
    /\ requests' = requests \cup
          {Req(nextReq, timers[i].q, "/api/collections", 0, 0, "")}
    /\ nextReq' = nextReq + 1
    /\ loadLog' = [loadLog EXCEPT !.last = nextReq,
                                  !.imports[timers[i].q].gets = @ + 1]
    /\ LogSent("/api/collections", "")
    /\ UNCHANGED <<pureVars, userInput, messages, now, nextAct, aVars, bVars, replies,
                   lastClick>>

\* A loadCollections that empties the collections variable when the load failed
loadCollectionsDone_Reset(r, outcome, list) ==
    /\ IsB
    /\ r \in requests /\ r.ep = "/api/collections"
    /\ requests' = requests \ {r}
    /\ collections' = [req |-> r.id, list |-> IF outcome = "ok" THEN list ELSE 0]
    /\ collectionsList' =
          [kind |-> IF outcome # "ok" THEN "Error loading collections"
                    ELSE IF list = 0 THEN "No data loaded" ELSE "items",
           req |-> r.id]
    /\ loadLog' = [loadLog EXCEPT
                      !.failed = @ \/ outcome # "ok",
                      !.imports = IF r.owner \in DOMAIN loadLog.imports
                                  THEN [@ EXCEPT ![r.owner].loads = @ + 1] ELSE @]
    /\ UNCHANGED <<pureVars, userInput, messages, timers, now, nextAct, nextReq, aVars,
                   currentMode, sendBtnDisabled, welcomeHidden, processingHidden,
                   messageDownloadData, toast, replies, lastClick, sentLog>>

\* loadCollections from the settling of fetch() to its end
loadCollectionsDone(r, outcome, list) ==
    /\ IsB
    /\ r \in requests /\ r.ep = "/api/collections"
    /\ requests' = requests \ {r}
    /\ IF outcome = "ok" THEN
           /\ collections' = [req |-> r.id, list |-> list]
           /\ collectionsList' = [kind |-> IF list = 0 THEN "No data loaded" ELSE "items",
                                  req |-> r.id]
       ELSE
           /\ collectionsList' = [kind |-> "Error loading collections", req |-> r.id]
           /\ UNCHANGED collections
    /\ loadLog' = [loadLog EXCEPT
                      !.failed = @ \/ outcome # "ok",
                      !.imports = IF r.owner \in DOMAIN loadLog.imports
                                  THEN [@ EXCEPT ![r.owner].loads = @ + 1] ELSE @]
    /\ UNCHANGED <<pureVars, userInput, messages, timers, now, nextAct, nextReq, aVars,
                   currentMode, sendBtnDisabled, welcomeHidden, processingHidden,
                   messageDownloadData, toast, replies, lastClick, sentLog>>

\* After DOMContentLoaded: loadCollections() has issued request 1 on behalf of
\* the initialization (action 0) and updateSendButton() has run
InitB ==
    /\ version = "part_002"
    /\ pc = "off"
    /\ args = <<>>
    /\ ret = <<>>
    /\ userInput = ""
    /\ messages = <<>>
    /\ requests = {Req(1, 0, "/api/collections", 0, 0, "")}
    /\ timers = <<>>
    /\ now = 0
    /\ nextAct = 1
    /\ nextReq = 2
    /\ queryDisplay = <<>>
    /\ setupMessage = ""
    /\ importMessage = ""
    /\ fileSelected = FALSE
    /\ currentMode = "database"
    /\ sendBtnDisabled = DisabledFor("")
    /\ welcomeHidden = FALSE
    /\ processingHidden = TRUE
    /\ messageDownloadData = <<>>
    /\ collections = [req |-> 0, list |-> 0]
    /\ collectionsList = [kind |-> "initial", req |-> 0]
    /\ toast = ""
    /\ replies = <<>>
    /\ lastClick = NoClick
    /\ loadLog = [last |-> 1, failed |-> FALSE, imports |-> <<>>]
    /\ sentLog = [NothingSent EXCEPT !.sent["/api/collections"] = 1]

\* Sending a query and receiving its response
NextQueryB(Texts, Resps) ==
    \/ \E text \in Texts : B_Type(text)
    \/ B_SendMessage
    \/ \E r \in requests : \E net, ok \in BOOLEAN : B_FetchSettled(r, net, ok)
    \/ \E r \in requests : \E resp \in Resps : B_BodyRead(r, resp)
    \/ \E i \in 1..Len(timers) : B_ListenerTimer(i)

\* Imports and the collections list
NextCollectionsB ==
    \/ B_FileChange
    \/ \E r \in requests : \E outcome \in PlainOutcomes : B_ImportResponse(r, outcome)
    \/ \E i \in 1..Len(timers) : B_ReloadTimer(i)
    \/ \E r \in requests : \E outcome \in PlainOutcomes : \E list \in CollectionLists :
          loadCollectionsDone(r, outcome, list)

\* Every way a request can fail, and the results that tell the modes apart
RespsB ==
    {resp \in QueryResponses :
        \/ OutcomeOf(resp) = "failed"
        \/ /\ ~resp.query /\ resp.sample = "absent"
           /\ resp.result \in {"rows", "empty"}
           /\ resp.summary \in {"none", "plain"}}

\* The chat of part_002 with its mode buttons, New Chat and the downloads
NextB ==
    \/ NextQueryB({"", "q"}, RespsB)
    \/ \E mode \in Modes : switchMode(mode)
    \/ B_NewChat
    \/ \E i \in 1..Len(messages) : B_ClickDownload(i)
    \/ \E r \in requests : \E outcome \in PlainOutcomes : \E list \in CollectionLists :
          loadCollectionsDone(r, outcome, list)

SpecB == InitB /\ [][NextB]_vars

SpecColl == InitB /\ [][NextCollectionsB]_vars

\* Every fetch() settles and every timer fires
FairCollections ==
    /\ WF_vars(\E r \in requests : \E outcome \in PlainOutcomes :
                  B_ImportResponse(r, outcome))
    /\ WF_vars(\E i \in 1..Len(timers) : B_ReloadTimer(i))
    /\ WF_vars(\E r \in requests : \E outcome \in PlainOutcomes :
                  \E list \in CollectionLists : loadCollectionsDone(r, outcome, list))

SpecCollLive == InitB /\ [][NextCollectionsB]_vars /\ FairCollections

Init == InitA \/ InitB

\* The queries of every version, with every way a request can end
NextChat ==
    \/ NextQueryA({"q"}, RespsChat)
    \/ NextQueryB({"q"}, RespsChat)

SpecChat == Init /\ [][NextChat]_vars

\* A request that is not answered, one answered with a status that is not OK
\* and one that brings rows
RespsMin ==
    {resp \in RespsChat :
        \/ ~resp.net
        \/ resp.json /\ ~resp.error /\ (~resp.ok \/ resp.result = "rows")}

\* Responses with every value of the result field, with and without a
\* sample_result beside it
RespsResult ==
    RespsMin \cup
    {resp \in QueryResponses :
        /\ OutcomeOf(resp) = "succeeded"
        /\ ~resp.query /\ resp.summary = "none" /\ resp.searched = 0}

\* The queries of every version answered with these
NextResults ==
    \/ NextQueryA({"q"}, RespsResult)
    \/ NextQueryB({"q"}, RespsResult)

SpecResults == Init /\ [][NextResults]_vars

\* The queries of every version with the mode buttons and New Chat
NextConcurrent ==
    \/ NextQueryA({"q"}, RespsMin)
    \/ NextQueryB({"q"}, RespsMin)
    \/ \E mode \in Modes : switchMode(mode)
    \/ B_NewChat

SpecConcurrent == Init /\ [][NextConcurrent]_vars

Keys == {"Enter", "q"}

\* The input field of part_002 with everything that sets it: typing, the
\* keys, the mode buttons, a send and New Chat; and the responses
NextInput ==
    \/ \E text \in InputTexts : B_Type(text)
    \/ B_SendMessage
    \/ \E r \in requests : \E net, ok \in BOOLEAN : B_FetchSettled(r, net, ok)
    \/ \E r \in requests : \E resp \in RespsMin : B_BodyRead(r, resp)
    \/ \E key \in Keys : \E shift \in BOOLEAN : B_KeyDown(key, shift)
    \/ \E mode \in Modes : switchMode(mode)
    \/ B_NewChat

SpecInput == InitB /\ [][NextInput]_vars

\* Every handler of every version that issues a request
NextAll ==
    \/ NextQueryA({"q"}, RespsMin)
    \/ NextFormsA
    \/ NextQueryB({"q"}, RespsMin)
    \/ NextCollectionsB

Spec == Init /\ [][NextAll]_vars

-----------------------------------------------------------------------------
(* The two pure functions exercised on their own                           *)

MaxRows == 2    \* rows of a result array

FmtKeys   == {<<"k">>, <<"<", "\"">>, KLink}
FmtValues == {Str(<<"a">>), Str(<<"&", "<", ">", "\"", "'">>),
              Str(Rep("a", MaxLenDefault) \o <<"\"">>), Null}
FmtRows ==
    {<<[k |-> k, v |-> v]>> : k \in FmtKeys, v \in FmtValues}
    \cup {<<[k |-> <<"k">>, v |-> v], [k |-> KLink, v |-> w]>> :
             v \in FmtValues, w \in FmtValues}

FmtSummaries == {<<>>, <<"s", "&", "\n", "<">>}
FmtSearched  == {<<>>, <<<<"c", "\"">>, <<"d">>>>}

ArraysOf(Rows, lo) ==
    UNION {[1..n -> Rows] : n \in lo..MaxRows}

InitFmt ==
    /\ PageIdle
    /\ version \in Versions
    /\ pc = "call"
    /\ args \in {[results |-> rs, summary |-> su, searched |-> se] :
                    rs \in ArraysOf(FmtRows, 1), su \in FmtSummaries,
                    se \in IF version = "part_002" THEN FmtSearched ELSE {<<>>}}
    /\ ret = <<>>

CallFormatResults ==
    /\ pc = "call"
    /\ ret' = formatResults(version, args.results, args.summary, args.searched)
    /\ pc' = "done"
    /\ UNCHANGED <<version, args, pageVars, aVars, bVars, histVars>>

SpecFmt == InitFmt /\ [][CallFormatResults]_vars

CsvKeys   == {<<"a">>, <<"b">>, <<"c", ",">>}
CsvValues == {Str(<<"x">>), Str(<<"\"">>), Str(<<",", "\n">>), Null}
CsvRows ==
    {<<[k |-> k, v |-> v]>> : k \in CsvKeys, v \in CsvValues}
    \cup {<<[k |-> <<"a">>, v |-> v], [k |-> <<"b">>, v |-> w]>> :
             v \in CsvValues, w \in CsvValues}

InitCsv ==
    /\ PageIdle
    /\ version \in Versions
    /\ pc = "call"
    /\ args \in {[data |-> d] : d \in ArraysOf(CsvRows, 0)}
    /\ ret = <<>>

CallDownloadCSV ==
    /\ pc = "call"
    /\ ret' = downloadCSV(version, args.data)
    /\ pc' = "done"
    /\ UNCHANGED <<version, args, pageVars, aVars, bVars, histVars>>

SpecCsv == InitCsv /\ [][CallDownloadCSV]_vars

\* '<table' and '<div class="result-summary">'
MarkTable == <<"<", "t", "a", "b", "l", "e">>
MarkSummary ==
    <<"<", "d", "i", "v", " ", "c", "l", "a", "s", "s", "=", "\"", "r", "e", "s",
      "u", "l", "t", "-", "s", "u", "m", "m", "a", "r", "y", "\"", ">">>

\* String.prototype.startsWith
startsWith(s, prefix) ==
    Len(s) >= Len(prefix) /\ SubSeq(s, 1, Len(prefix)) = prefix

\* The test by which addMessage takes its text for HTML
IsTakenForHtml(ver, text) ==
    IF ver = "part_002"
    THEN Includes(text, MarkTable) \/ Includes(text, MarkSummary)
    ELSE startsWith(text, MarkSummary) \/ startsWith(text, MarkTable)

\* addMessage(text, type) for a string: whether the text went into innerHTML
\* as it is, and the HTML of the message content
addMessage(ver, text) ==
    LET raw == IsTakenForHtml(ver, text)
    IN  [raw |-> raw,
         html |-> IF raw THEN FlatMap(D, text) ELSE escapeHtml(ver, Str(text))]

\* 'Error: ' as sendQuery and sendMessage put it before data.error
ErrorPrefix == <<"E", "r", "r", "o", "r", ":", " ">>

\* Texts a user can type and a backend can send
MsgPayloads ==
    {<<"a">>, <<"&">>, <<"<", "b", ">">>, <<"\"">>,
     MarkTable, MarkTable \o <<">">>, <<"a">> \o MarkTable, <<"a", " ">> \o MarkTable \o <<">">>,
     MarkSummary, <<"a">> \o MarkSummary, MarkSummary \o MarkTable \o <<">">>}

\* The texts addMessage is given, with where each comes from: the question
\* typed, an error string, a summary shown without a table (part_002), the
\* value formatResults returned
MsgTexts(ver) ==
    {[origin |-> "user", text |-> t] : t \in MsgPayloads}
    \cup {[origin |-> "error", text |-> ErrorPrefix \o t] : t \in MsgPayloads}
    \cup (IF ver = "part_002"
          THEN {[origin |-> "summary", text |-> t] : t \in MsgPayloads}
               \cup {[origin |-> "formatResults",
                      text |-> <<"<", "d", "i", "v", ">">> \o MarkTable \o <<">">>]}
          ELSE {[origin |-> "formatResults",
                 text |-> MarkSummary \o MarkTable \o <<">">>]})

InitMsg ==
    /\ PageIdle
    /\ version \in Versions
    /\ pc = "call"
    /\ args \in MsgTexts(version)
    /\ ret = <<>>

CallAddMessage ==
    /\ pc = "call"
    /\ ret' = addMessage(version, args.text)
    /\ pc' = "done"
    /\ UNCHANGED <<version, args, pageVars, aVars, bVars, histVars>>

SpecMsg == InitMsg /\ [][CallAddMessage]_vars

\* Keys of the rows given to the column order of part_002: the two excluded
\* keys, the three keys with a fixed place and two others
OrderKeys == {K_id, K_source, K_collection, Kai_summary, KLink, <<"j">>, <<"k">>}

\* Row objects with no key, one key or two different keys, in either order
OrderRows ==
    {<<>>}
    \cup {<<[k |-> a, v |-> Str(<<"a">>)]>> : a \in OrderKeys}
    \cup {row \in {<<[k |-> a, v |-> Str(<<"a">>)], [k |-> b, v |-> Str(<<"a">>)]>> :
                       a \in OrderKeys, b \in OrderKeys} : row[1].k # row[2].k}

InitKeys ==
    /\ PageIdle
    /\ version = "part_002"
    /\ pc = "call"
    /\ args \in {[results |-> rs] : rs \in ArraysOf(OrderRows, 1)}
    /\ ret = <<>>

CallOrderedKeys ==
    /\ pc = "call"
    /\ ret' = orderedKeysOf(args.results)
    /\ pc' = "done"
    /\ UNCHANGED <<version, args, pageVars, aVars, bVars, histVars>>

SpecKeys == InitKeys /\ [][CallOrderedKeys]_vars

\* Keys of the rows of a result table: two plain keys and '_id'
TableKeys == {<<"a">>, <<"b">>, K_id}

\* The value a row holds for the key k, when it holds one
ValueOf(k) == Str(<<"=">> \o k)

\* A property of a row: a key with its value, or the key 'a' with null
TableFields == {[k |-> k, v |-> ValueOf(k)] : k \in TableKeys}
               \cup {[k |-> <<"a">>, v |-> Null]}

\* Row objects with no key, one key or two different keys, in either order
TableRows ==
    {<<>>}
    \cup {<<f>> : f \in TableFields}
    \cup {row \in {<<f, g>> : f \in TableFields, g \in TableFields} :
             row[1].k # row[2].k}

InitTable ==
    /\ PageIdle
    /\ version \in Versions
    /\ pc = "call"
    /\ args \in {[results |-> rs, summary |-> <<>>, searched |-> <<>>] :
                    rs \in ArraysOf(TableRows, 1)}
    /\ ret = <<>>

SpecTable == InitTable /\ [][CallFormatResults]_vars

-----------------------------------------------------------------------------
(* Claims about the pure functions                                         *)

\* The templates that open an attribute whose value comes from a row
AttributeOpeners == {"title=\"", "<a href=\""}

\* Piece i of the HTML lies inside the value of such an attribute
InAttribute(out, i) ==
    \E j \in 1..(i - 1) :
        /\ out[j].src = "tpl" /\ out[j].s \in AttributeOpeners
        /\ \A m \in (j + 1)..(i - 1) : out[m].src = "data"

\* C1: formatResults escapes every value it puts into the table, so that no
\* value can add an element or an attribute: the HTML it returns holds no raw
\* & < > that comes from a key or a value, and inside the title="..." and
\* href="..." attributes it builds no raw double quote that comes from a value.
C1_ValuesEscaped ==
    pc = "done" =>
        \A i \in 1..Len(ret) :
            ret[i].src = "data" =>
                /\ ret[i].s \notin {"&", "<", ">"}
                /\ InAttribute(ret, i) => ret[i].s # "\""

\* The line the claim expects on top of the file for the header list h
HeaderLineIs(text, h) ==
    /\ Len(text) >= Len(h)
    /\ SubSeq(text, 1, Len(h)) = h
    /\ (Len(text) = Len(h) \/ text[Len(h) + 1] = "\n")

\* C2: for a non-empty array of rows, the header row of the CSV lists exactly
\* the union of the keys of all rows (each once, in the order of first
\* occurrence), so a key only a later row has still gets a column.
C2_HeaderIsUnionOfKeys ==
    (pc = "done" /\ Len(args.data) > 0) =>
        /\ ret.saved
        /\ HeaderLineIs(ret.text, Join(UnionKeys(args.data), <<",">>))

\* A field as the claim wants it written: enclosed in double quotes, every
\* embedded double quote doubled
QuotedField(str) ==
    LET dq(c) == IF c = "\"" THEN <<"\"", "\"">> ELSE <<c>>
    IN  <<"\"">> \o FlatMap(dq, str) \o <<"\"">>

\* The string of a cell: '' for a missing, null or undefined value
CellString(row, h) == IF IsNullish(Get(row, h)) THEN <<>> ELSE Get(row, h).s

\* C3: every field of the CSV, in the header row as in the data rows, is
\* enclosed in double quotes with embedded double quotes doubled; a missing,
\* null or undefined value is written as "".
C3_EveryFieldQuoted ==
    (pc = "done" /\ Len(args.data) > 0) =>
        LET headers == csvHeaders(version, args.data)
            line(row) == LET f(h) == QuotedField(CellString(row, h))
                         IN  Join(Map(f, headers), <<",">>)
        IN  ret.text = Join(<<Join(Map(QuotedField, headers), <<",">>)>>
                            \o Map(line, args.data), <<"\n">>)

\* C4: reading the CSV back with a standard quoted-CSV reader gives the
\* header names (the keys of the rows) and, row by row in the same order, the
\* string of every column, '' for a missing value.
C4_RoundTrip ==
    (pc = "done" /\ Len(args.data) > 0) =>
        LET headers == UnionKeys(args.data)
            line(row) == LET f(h) == CellString(row, h) IN Map(f, headers)
        IN  ParseCsv(ret.text) = <<headers>> \o Map(line, args.data)

-----------------------------------------------------------------------------
(* Claims about the chat                                                   *)

\* C5: in script.js and part_001 each rendered result table exports its own
\* rows: once the deferred listeners have been attached, a click on the
\* download button of a table calls downloadCSV exactly once, with the rows
\* of the query that produced the table.
C5_ClickExportsOwnRows ==
    (lastClick.table # 0 /\ lastClick.settled) =>
        lastClick.calls = <<lastClick.table>>

\* C6: in part_002 every key of messageDownloadData is the id of a message
\* that is rendered in messagesWrapper now, and its value is the rows of the
\* query that produced that message.
C6_DownloadDataOfRenderedMessages ==
    \A id \in DOMAIN messageDownloadData :
        \E i \in 1..Len(messages) :
            /\ messages[i].id = id
            /\ HasDownloadButton(messages[i])
            /\ messageDownloadData[id] = messages[i].q

\* The queries sent so far (under SpecChat every user action is a query)
QueriesSent == 1..(nextAct - 1)

\* C7: a query whose request has completed, however it ended, has had exactly
\* one reply message appended: an error message when the request failed, a
\* result / no-result message when it succeeded; a query still unanswered has
\* none.
C7_ExactlyOneReply ==
    \A q \in QueriesSent :
        IF \E r \in requests : r.q = q
        THEN q \notin DOMAIN replies
        ELSE /\ q \in DOMAIN replies
             /\ Len(replies[q]) = 1
             /\ replies[q][1].on = "failed" => replies[q][1].type = "error"
             /\ replies[q][1].on = "succeeded" => replies[q][1].type = "result"

\* Two queries answered, one that failed and one that succeeded
C7_Witness ==
    \E q1, q2 \in DOMAIN replies :
        /\ replies[q1] = <<[type |-> "error", on |-> "failed"]>>
        /\ replies[q2] = <<[type |-> "result", on |-> "succeeded"]>>

\* No load of the collections is under way or scheduled
CollectionsQuiet ==
    /\ \A r \in requests : r.ep \notin {"/api/collections", "/api/import-csv"}
    /\ \A i \in 1..Len(timers) : timers[i].kind # "reload"

\* C8: when several GET /api/collections were outstanding at once and all
\* have completed (none failed), the collections variable and the sidebar
\* hold the response of the request issued last.
C8_LastIssuedWins ==
    (CollectionsQuiet /\ ~loadLog.failed) =>
        /\ collections.req = loadLog.last
        /\ collectionsList.req = loadLog.last

\* C9: what sendMessage renders for a response depends only on the response
\* and on the mode in which the query was sent: the reply is the one the
\* response gives under the mode of the send.
C9_ModeAtSendDecides ==
    [][\A r \in requests : \A resp \in RespsB :
          (B_BodyRead(r, resp) /\ OutcomeOf(resp) = "succeeded") =>
              LET shown == messages'[Len(messages')]
                  meant == B_ResultMessage(resp, r.mode)
              IN  shown.kind = meant.kind /\ shown.note = meant.note]_vars

\* C10: at any moment every user action (and the initialization) has at most
\* one request outstanding on its behalf, the collections reload after an
\* import included.
C10_OneRequestPerAction ==
    \A r1, r2 \in requests : r1.owner = r2.owner => r1 = r2

\* The reload of the collections is outstanding on behalf of an import while
\* the request of another action is outstanding too
C10_Witness ==
    \E r1, r2 \in requests :
        /\ r1.ep = "/api/collections" /\ r1.owner > 0
        /\ r2.owner # r1.owner

-----------------------------------------------------------------------------
(* Claims about concurrent queries and failures                            *)

\* The ids of the query requests in a set of requests
QueryIds(reqs) ==
    {r.id : r \in {x \in reqs : x.ep \in {"/api/query", "/api/search"}}}

\* C11: queries are neither cancelled nor queued: a query request leaves the
\* set of outstanding requests only by the step that renders its response as
\* the last message of the chat, whatever happened since it was sent (a later
\* query and its response, a mode switch, New Chat).
C11_EveryResponseRendered ==
    [][\A r \in requests :
          (r.id \in QueryIds(requests) /\ r.id \notin QueryIds(requests')) =>
              /\ messages' # <<>>
              /\ messages'[Len(messages')].q = r.q
              /\ messages'[Len(messages')].kind \notin {"user", "loading"}]_vars

\* Two queries were outstanding together and the response of the earlier one
\* was rendered after the response of the later one
C11_Witness ==
    \E i, j \in 1..Len(messages) :
        /\ i < j
        /\ messages[i].kind \notin {"user", "loading"}
        /\ messages[j].kind \notin {"user", "loading"}
        /\ messages[i].q > messages[j].q
\* C12: there is no fatal state: after any sequence of successful and failed
\* requests a send with a non-empty input is accepted, the loading placeholder
\* of a query whose request failed is no longer in the chat, and the
\* processing indicator is hidden once no query awaits its response.
C12_NoFatalState ==
    /\ (Trim(userInput) # "" /\ nextAct <= MaxActions) =>
           ENABLED (A_SendQuery \/ B_SendMessage)
    /\ \A q \in DOMAIN replies :
           replies[q][1].on = "failed" =>
               \A i \in 1..Len(messages) :
                   ~(messages[i].kind = "loading" /\ messages[i].q = q)
    /\ (IsB /\ \A r \in requests : r.id \in QueryIds(requests) => r.stage # "sent")
           => processingHidden
\* C13: no request is sent again: over any run the requests sent to
\* /api/query and /api/search are as many as the sends accepted, the requests
\* to /api/setup as many as the setup clicks, the requests to /api/import-csv
\* as many as the imports started with a file; with the loads of the
\* collections they are all the requests there are.
C13_NoRetries ==
    /\ sentLog.sent["/api/query"] + sentLog.sent["/api/search"] = sentLog.acts["send"]
    /\ sentLog.sent["/api/setup"] = sentLog.acts["setup"]
    /\ sentLog.sent["/api/import-csv"] = sentLog.acts["import"]
    /\ sentLog.acts["send"] + sentLog.acts["setup"] + sentLog.acts["import"]
           + sentLog.sent["/api/collections"] = nextReq - 1

\* A setup and a query have both failed and nothing is outstanding
C13_Witness ==
    /\ setupMessage = "failed"
    /\ \E q \in DOMAIN replies : replies[q][1].on = "failed"
    /\ requests = {}
\* C14: in part_002 currentMode starts as 'database' and is always one of
\* 'database' and 'serpapi'; an accepted send issues exactly one request, and
\* the request of a query sent in mode 'database' is a POST to /api/query that
\* carries the question, the request of any other a POST to /api/search that
\* carries the question as query with limit 10.
C14_RequestByModeAtSend ==
    /\ IsB => currentMode = "database"
    /\ [](IsB =>
            /\ currentMode \in Modes
            /\ \A r \in requests :
                  r.id \in QueryIds(requests) =>
                      IF r.mode = "database"
                      THEN /\ r.ep = "/api/query"
                           /\ r.body = [question |-> r.q, mode |-> "database"]
                      ELSE /\ r.ep = "/api/search"
                           /\ r.body = [query |-> r.q, limit |-> 10])
    /\ [][B_SendMessage =>
            \E r \in requests' :
                /\ r \notin requests /\ requests' = requests \cup {r}
                /\ r.mode = currentMode /\ r.q = nextAct /\ r.stage = "sent"]_vars

\* A query sent in each mode, both awaiting their responses
C14_Witness ==
    \E r1, r2 \in requests :
        /\ r1.ep = "/api/query" /\ r1.mode = "database"
        /\ r2.ep = "/api/search" /\ r2.mode = "serpapi"
        /\ r1.q < r2.q /\ currentMode = "database"
-----------------------------------------------------------------------------
(* Claims about what a reply shows                                         *)

\* What the reply shows when it is derived from the result field
KindOfResult(resp) ==
    CASE resp.result = "rows" -> "table"
      [] resp.result = "empty" -> "none"
      [] resp.result \in {"zero", "number"} -> "number"
      [] OTHER -> "json"

\* C15: for every successful response in which result is present, the values
\* 0, false and '' included, the reply is derived from result and never from
\* sample_result or the empty-list default: sendQuery shows an array as a
\* table or as the no-results text and a number n as 'Result: n', and
\* sendMessage shows no table made of sample_result.
C15_ResultFieldShown ==
    [][\A r \in requests : \A resp \in RespsResult :
          (/\ A_QueryResponse(r, resp) \/ B_BodyRead(r, resp)
           /\ OutcomeOf(resp) = "succeeded" /\ resp.result # "absent") =>
              LET shown == messages'[Len(messages')]
              IN  IF IsA
                  THEN shown.kind = KindOfResult(resp) /\ shown.from = "result"
                  ELSE shown.from # "sample_result"]_vars
-----------------------------------------------------------------------------
(* Claims about imports and the collections list                           *)

\* C16: every CSV import that succeeds is eventually followed by exactly one
\* GET /api/collections, whose response replaces what the sidebar shows; an
\* import that fails shows an error toast and issues no collections request.
C16_ReloadAfterImport ==
    /\ [](\A a \in DOMAIN loadLog.imports :
             /\ loadLog.imports[a].gets <= 1
             /\ loadLog.imports[a].loads <= loadLog.imports[a].gets
             /\ loadLog.imports[a].ended # "ok" => loadLog.imports[a].gets = 0)
    /\ [][/\ \A r \in requests : \A outcome \in PlainOutcomes \ {"ok"} :
                B_ImportResponse(r, outcome) =>
                    toast' = "error" /\ timers' = timers /\ requests' = requests \ {r}
          /\ \A r \in requests : \A outcome \in PlainOutcomes : \A list \in CollectionLists :
                loadCollectionsDone(r, outcome, list) => collectionsList'.req = r.id]_vars
    /\ \A a \in 1..(MaxActions + 1) :
          (a \in DOMAIN loadLog.imports /\ loadLog.imports[a].ended = "ok")
              ~> (/\ a \in DOMAIN loadLog.imports
                  /\ loadLog.imports[a].gets = 1 /\ loadLog.imports[a].loads = 1)

\* One import has succeeded and its reload has been answered, another has
\* failed and nothing is under way
C16_Witness ==
    \E a, b \in DOMAIN loadLog.imports :
        /\ loadLog.imports[a] = [ended |-> "ok", gets |-> 1, loads |-> 1]
        /\ loadLog.imports[b] = [ended |-> "failed", gets |-> 0, loads |-> 0]
        /\ toast = "error" /\ requests = {} /\ timers = <<>>
\* C17: when GET /api/collections rejects, has a status that is not OK or a
\* body that does not parse, loadCollections ends without throwing, the
\* sidebar shows 'Error loading collections' and the collections variable
\* keeps the value it had.
C17_FailedLoadSurfaced ==
    [][\A r \in requests : \A outcome \in PlainOutcomes \ {"ok"} :
          \A list \in CollectionLists :
              loadCollectionsDone(r, outcome, list) =>
                  /\ collections' = collections
                  /\ collectionsList' = [kind |-> "Error loading collections",
                                         req |-> r.id]
                  /\ requests' = requests \ {r}
                  /\ toast' = toast /\ timers' = timers]_vars

\* A reload failed after an earlier load had filled the collections variable
C17_Witness ==
    /\ collectionsList.kind = "Error loading collections"
    /\ collections.req # 0 /\ collections.list # 0
    /\ collectionsList.req > collections.req
-----------------------------------------------------------------------------
(* Claims about the messages of the chat                                   *)

\* C18: addMessage inserts a text as raw HTML only when formatResults produced
\* it; every other text (the question, an error string, a summary shown
\* without a table) is displayed escaped, whatever it contains.
C18_OnlyFormattedIsRaw ==
    pc = "done" =>
        /\ ret.raw => args.origin = "formatResults"
        /\ args.origin # "formatResults" =>
               \A i \in 1..Len(ret.html) : ret.html[i].s \notin {"<", ">", "&"}
\* C19: in script.js and part_001 removeMessage(loadingMsgId) removes the
\* loading placeholder of its own sendQuery call and nothing else: the user
\* message of every query sent and the reply of every query answered stay in
\* the chat, also when Date.now() gave two messages the same id.
C19_OnlyPlaceholderRemoved ==
    IsA =>
        \A q \in QueriesSent :
            /\ \E i \in 1..Len(messages) :
                  messages[i].kind = "user" /\ messages[i].q = q
            /\ q \in DOMAIN replies =>
                  \E i \in 1..Len(messages) :
                      messages[i].q = q /\ messages[i].kind \notin {"user", "loading"}

\* C20: in script.js and part_001 the loading placeholder of a sendQuery call
\* is in the chat only while the request of that call is outstanding; once
\* no request is outstanding the chat holds no placeholder.
C20_PlaceholdersRemoved ==
    IsA =>
        \A i \in 1..Len(messages) :
            messages[i].kind = "loading" =>
                \E r \in requests : r.ep = "/api/query" /\ r.q = messages[i].q

-----------------------------------------------------------------------------
(* Claims about the indicators of part_002                                 *)

\* The requests of sendMessage whose fetch() has not settled
Unanswered ==
    {r \in requests : r.ep \in {"/api/query", "/api/search"} /\ r.stage = "sent"}

\* C21: in part_002 the processing indicator is visible exactly while a
\* request sent by sendMessage is unanswered, also when two queries overlap
\* and the first response arrives before the second.
C21_IndicatorTracksOutstanding ==
    IsB => (processingHidden <=> Unanswered = {})

-----------------------------------------------------------------------------
(* Claims about the query display                                          *)

\* The positions of the replies to successful responses in the chat
ResultReplies ==
    {i \in 1..Len(messages) :
        messages[i].type = "system" /\ messages[i].kind \notin {"user", "loading"}}

\* The query whose successful response was handled last, as far as the chat
\* still shows it (0: it shows none)
LastHandled ==
    IF ResultReplies = {} THEN 0
    ELSE messages[CHOOSE i \in ResultReplies : \A j \in ResultReplies : j <= i].q

\* C22: in part_001, once every typeWriter timer has fired, the query display
\* holds exactly the text of the query of the response handled last, with no
\* character of an earlier query in it, also when a second response was
\* handled while the first query was still being typed.
C22_DisplayIsLastQuery ==
    (/\ version = "part_001"
     /\ \A j \in 1..Len(timers) : timers[j].kind # "type"
     /\ LastHandled # 0)
    => queryDisplay = QueryText(LastHandled)

-----------------------------------------------------------------------------
(* Claims about the columns of a result table                              *)

\* The place of the key k in the i-th row (0: the row has no such key)
PlaceIn(row, k) ==
    IF \E n \in 1..Len(row) : row[n].k = k
    THEN CHOOSE n \in 1..Len(row) : row[n].k = k
    ELSE 0

\* The key k occurs in the rows
Occurs(rows, k) == \E i \in 1..Len(rows) : PlaceIn(rows[i], k) # 0

\* The first row in which the key k occurs
FirstRowOf(rows, k) ==
    CHOOSE i \in 1..Len(rows) :
        PlaceIn(rows[i], k) # 0 /\ \A j \in 1..(i - 1) : PlaceIn(rows[j], k) = 0

\* The key a occurs in the rows before the key b does
OccursBefore(rows, a, b) ==
    \/ FirstRowOf(rows, a) < FirstRowOf(rows, b)
    \/ /\ FirstRowOf(rows, a) = FirstRowOf(rows, b)
       /\ PlaceIn(rows[FirstRowOf(rows, a)], a) < PlaceIn(rows[FirstRowOf(rows, a)], b)

\* The keys with a place of their own in the column list
PlacedKeys == {K_collection, Kai_summary, KLink}

\* C23: in part_002 the column list of formatResults is a duplicate-free list
\* of exactly the keys that occur in a row, '_id' and '_source' left out, with
\* '_collection' first, 'Link' last, 'ai_summary' directly before 'Link' (last
\* without 'Link') and the other keys in between in first-occurrence order.
C23_ColumnOrder ==
    pc = "done" /\ DOMAIN args = {"results"} =>
        LET rows == args.results
            n == Len(ret)
            At(k) == CHOOSE i \in 1..n : ret[i] = k
        IN  /\ \A i, j \in 1..n : i # j => ret[i] # ret[j]
            /\ \A k \in OrderKeys :
                  Contains(ret, k) <=> (Occurs(rows, k) /\ k \notin {K_id, K_source})
            /\ \A i \in 1..n : ret[i] \in OrderKeys
            /\ Contains(ret, K_collection) => ret[1] = K_collection
            /\ Contains(ret, KLink) => ret[n] = KLink
            /\ Contains(ret, Kai_summary) =>
                  IF Contains(ret, KLink) THEN ret[n - 1] = Kai_summary
                  ELSE ret[n] = Kai_summary
            /\ \A i, j \in 1..n :
                  (ret[i] \notin PlacedKeys /\ ret[j] \notin PlacedKeys /\ i < j)
                  => OccursBefore(rows, ret[i], ret[j])

\* A call whose rows hold the three placed keys out of place: 'Link' first,
\* '_collection' last, and an excluded key
C23_Witness ==
    /\ pc = "done"
    /\ DOMAIN args = {"results"}
    /\ Len(args.results) = 2
    /\ ObjectKeys(args.results[1]) = <<KLink, Kai_summary>>
    /\ ObjectKeys(args.results[2]) = <<<<"k">>, K_collection>>
    /\ ret = <<K_collection, <<"k">>, Kai_summary, KLink>>

\* Reading a table back from the HTML of formatResults

Tpl(s) == [src |-> "tpl", s |-> s]

\* The first position after i that holds one of the pieces ps
NextOf(html, i, ps) ==
    CHOOSE j \in (i + 1)..Len(html) :
        html[j] \in ps /\ \A n \in (i + 1)..(j - 1) : html[n] \notin ps

\* The n-th element of a set of numbers, in ascending order
Nth(S, n) == CHOOSE x \in S : Cardinality({y \in S : y < x}) = n - 1

\* The positions at which a row of the table opens
RowOpens(html) ==
    {i \in 1..Len(html) : html[i] \in {Tpl("<tr>"), Tpl("<table><tr>")}}

ThOpeners == {Tpl("<th>"), Tpl("<th style=\"text-align: left; width: ")}
TdOpeners == {Tpl("<td>"), Tpl("<td ")}

\* The positions at which a cell opens in the row that opens at i
CellOpens(html, i) ==
    {j \in i..NextOf(html, i, {Tpl("</tr>")}) : html[j] \in ThOpeners \cup TdOpeners}

\* What the cell that opens at j holds between its opening and closing tag
CellContent(ver, html, j) ==
    LET from == IF ver = "part_002" THEN NextOf(html, j, {Tpl(";\">")}) ELSE j
        to == NextOf(html, j, {Tpl("</th>"), Tpl("</td>")})
    IN  SubSeq(html, from + 1, to - 1)

\* The cell of a row that has no value for the key of the column
NoValueCell(ver) ==
    IF ver = "part_002"
    THEN T("<span style=\"color: var(--text-secondary); font-style: italic;\">N/A</span>")
    ELSE <<>>

\* The table of ret has the columns cols: a header cell per column, and in
\* every data row a cell per column, with the row's value for the column's
\* key or with the cell for no value
TableHasColumns(cols) ==
    LET rows == args.results
        opens == RowOpens(ret)
        n == Cardinality(cols)
        head == Nth(opens, 1)
        KeyAt(c) == CHOOSE k \in cols :
                        CellContent(version, ret, Nth(CellOpens(ret, head), c))
                            = escapeHtml(version, Str(k))
    IN  /\ Cardinality(opens) = Len(rows) + 1
        /\ Cardinality(CellOpens(ret, head)) = n
        /\ \A k \in cols : \E c \in 1..n :
              CellContent(version, ret, Nth(CellOpens(ret, head), c))
                  = escapeHtml(version, Str(k))
        /\ \A i \in 1..Len(rows) :
              LET open == Nth(opens, i + 1)
              IN  /\ Cardinality(CellOpens(ret, open)) = n
                  /\ \A c \in 1..n :
                        CellContent(version, ret, Nth(CellOpens(ret, open), c))
                            = IF IsNullish(Get(rows[i], KeyAt(c)))
                              THEN NoValueCell(version)
                              ELSE escapeHtml(version, Get(rows[i], KeyAt(c)))

\* The keys that occur in a row of the results
KeysOccurring(rows) == {k \in TableKeys : Occurs(rows, k)}

\* C24: the table of formatResults is rectangular over the union of keys: the
\* header has one column for each distinct key that occurs in a row, and
\* every data row has as many cells, in the header's order, with an empty
\* cell (script.js) or an 'N/A' cell (part_002) where the row has no value.
C24_TableOverUnionOfKeys ==
    pc = "done" /\ DOMAIN args = {"results", "summary", "searched"} =>
        TableHasColumns(KeysOccurring(args.results))

\* C24, with the keys part_002 leaves out: the columns of part_002 are the
\* keys that occur in a row other than '_id' and '_source'; those of
\* script.js and part_001 are all the keys that occur in a row.
C24_TableOverShownKeys ==
    pc = "done" /\ DOMAIN args = {"results", "summary", "searched"} =>
        TableHasColumns(IF version = "part_002"
                        THEN KeysOccurring(args.results) \ {K_id, K_source}
                        ELSE KeysOccurring(args.results))

\* A table of part_002 from two rows, of which the first has an '_id' and
\* lacks the key the second has
C24_Witness ==
    /\ pc = "done"
    /\ DOMAIN args = {"results", "summary", "searched"}
    /\ version = "part_002"
    /\ Len(args.results) = 2
    /\ ObjectKeys(args.results[1]) = <<K_id, <<"a">>>>
    /\ ObjectKeys(args.results[2]) = <<<<"b">>>>
    /\ Cardinality(RowOpens(ret)) = 3

-----------------------------------------------------------------------------
(* Claims about the input field and the welcome screen of part_002         *)

\* C25: in part_002, after every handler that can change the input, the send
\* button is disabled exactly when the trimmed input is empty; so neither a
\* click nor Enter sends an empty question, and Shift+Enter never sends.
C25_SendButtonFollowsInput ==
    /\ [](IsB => (sendBtnDisabled <=> Trim(userInput) = ""))
    /\ [][(IsB /\ sentLog'.acts["send"] # sentLog.acts["send"]) => (Trim(userInput) # "" /\ ~sendBtnDisabled)]_vars
    /\ [][B_KeyDown("Enter", TRUE) =>
              (sentLog' = sentLog /\ requests' = requests /\ messages' = messages)]_vars

\* A question was sent and the input is empty again, with the button disabled
C25_Witness ==
    /\ IsB
    /\ sentLog.acts["send"] > 0
    /\ userInput = "" /\ sendBtnDisabled
    /\ messages = <<>>

\* C26: in part_002 the welcome screen is hidden exactly when the message
\* area holds at least one message, under every interleaving of sends, late
\* responses and New Chat clicks.
C26_WelcomeHiddenIffMessages ==
    IsB => (welcomeHidden <=> Len(messages) > 0)

\* The reply to a question arrived after New Chat had emptied the chat: it is
\* the only message and the welcome screen is hidden
C26_Witness ==
    /\ IsB
    /\ Len(messages) = 1
    /\ messages[1].kind \notin {"user", "loading"}
    /\ welcomeHidden

====
